---- MODULE Spec2Model ----
(***************************************************************************)
(* A model of src/src/function.py: the two review endpoints               *)
(* (backend_agent, frontend_agent), the request chain of                  *)
(* handle_code_review_request, and the scan of                            *)
(* extract_headers_and_content.  A string is a sequence of one-character  *)
(* strings, so that strip() and " ".join() are computed, not assumed.     *)
(***************************************************************************)
EXTENDS Integers, Sequences, FiniteSets, TLC

\* ---------------------------------------------------------------- bounds

\* Most elements (tags and bare text) in a wiki page body.
MaxLen == 4

\* Most characters in the body of a wiki error response.
MaxErrText == 1

\* ------------------------------------------------------- program constants

\* response.status_code == 200
HTTP_OK == 200

\* HTTPException(status_code=500, ...)
HTTP_INTERNAL_ERROR == 500

\* ------------------------------------------------------ python basics

\* Python's None, and a value that is not None.
None == <<>>

Some(x) == <<x>>

\* bool(x) for x a str or None: None and "" are false.
TruthyNotNone(opt) == opt # None

Truthy(opt) == opt # None /\ opt[1] # <<>>

RECURSIVE LStrip(_)
LStrip(s) == IF s = <<>> THEN s
             ELSE IF s[1] = " " THEN LStrip(Tail(s)) ELSE s

RECURSIVE RStrip(_)
RStrip(s) == IF s = <<>> THEN s
             ELSE IF s[Len(s)] = " " THEN RStrip(SubSeq(s, 1, Len(s) - 1)) ELSE s

\* str.strip()
Strip(s) == RStrip(LStrip(s))

\* sep.join(parts)
RECURSIVE Join(_, _)
Join(sep, parts) == IF parts = <<>> THEN <<>>
                    ELSE IF Len(parts) = 1 THEN parts[1]
                    ELSE parts[1] \o sep \o Join(sep, Tail(parts))

\* str(n) for n >= 0, as decimal digits.
Digit(d) == CASE d = 0 -> "0" [] d = 1 -> "1" [] d = 2 -> "2" [] d = 3 -> "3"
              [] d = 4 -> "4" [] d = 5 -> "5" [] d = 6 -> "6" [] d = 7 -> "7"
              [] d = 8 -> "8" [] d = 9 -> "9"

RECURSIVE Str(_)
Str(n) == IF n < 10 THEN <<Digit(n)>> ELSE Str(n \div 10) \o <<Digit(n % 10)>>

\* ------------------------------------------------- extract_headers_and_content

HEADER_TAGS == {"h1", "h2", "h3", "h4", "h5"}

\* soup.find_all(["h1", ..., "h5", "p"]): the elements with these names, in
\* document order; bare text and other elements are not returned.
find_all(content) == SelectSeq(content, LAMBDA t : t.name \in HEADER_TAGS \cup {"p"})

EmptyDict == [k \in {} |-> <<>>]

\* content_dict[key] = value
SetItem(dict, key, value) == (key :> value) @@ dict

\* " ".join(current_content).strip()
JoinedContent(current) == Strip(Join(<<" ">>, current))

\* The state before the loop (lines 81, 85, 86).
ScanStartDefault == [content_dict |-> EmptyDict,
                     current_header |-> Some(<<"a">>),
                     current_content |-> <<>>]

ScanStart == [content_dict |-> EmptyDict,
              current_header |-> None,
              current_content |-> <<>>]

\* if current_header: content_dict[current_header] = ...   (lines 90-91, 99-100)
Commit(st) == IF Truthy(st.current_header)
              THEN SetItem(st.content_dict, st.current_header[1],
                           JoinedContent(st.current_content))
              ELSE st.content_dict

\* The header branch of the loop body (lines 89-94).
HeaderStepKeep(st, tag) == [content_dict |-> Commit(st),
                            current_header |-> Some(Strip(tag.text)),
                            current_content |-> st.current_content]

HeaderStep(st, tag) == [content_dict |-> Commit(st),
                        current_header |-> Some(Strip(tag.text)),
                        current_content |-> <<>>]

\* The paragraph branch of the loop body (lines 96-97).
ParagraphStep(st, tag) ==
    IF Truthy(st.current_header)
    THEN [st EXCEPT !.current_content = Append(@, Strip(tag.text))]
    ELSE st

\* One iteration of the loop (lines 88-97).
TagStep(st, tag) == IF tag.name \in HEADER_TAGS THEN HeaderStep(st, tag)
                    ELSE IF tag.name = "p" THEN ParagraphStep(st, tag)
                    ELSE st

\* ------------------------------------------------------------- inputs

\* The elements a wiki page body is made of: headers of several levels whose
\* trimmed texts repeat ("a", " a "), differ ("b") or are empty (" "),
\* paragraphs, and an element find_all does not select.
Elements == { [name |-> "h2", text |-> <<"a">>],
              [name |-> "h5", text |-> <<" ", "a", " ">>],
              [name |-> "h3", text |-> <<"b">>],
              [name |-> "h1", text |-> <<" ">>],
              [name |-> "p", text |-> <<"x">>],
              [name |-> "p", text |-> <<" ", "y">>],
              [name |-> "p", text |-> <<" ">>],
              [name |-> "h6", text |-> <<"z">>] }

Pages == UNION { [1..n -> Elements] : n \in 0..MaxLen }

\* "No content found." parses to one bare text node.
NoContentFound ==
    << [name |-> "#text",
        text |-> <<"N", "o", " ", "c", "o", "n", "t", "e", "n", "t", " ",
                   "f", "o", "u", "n", "d", ".">>] >>

\* The JSON document of a 200 answer of the wiki: each key of the path
\* body.storage.value is absent, null, or present with the expected type.
WikiData ==
    { [body |-> "absent", storage |-> "absent", value |-> "absent", page |-> <<>>],
      [body |-> "null", storage |-> "absent", value |-> "absent", page |-> <<>>],
      [body |-> "object", storage |-> "absent", value |-> "absent", page |-> <<>>],
      [body |-> "object", storage |-> "null", value |-> "absent", page |-> <<>>],
      [body |-> "object", storage |-> "object", value |-> "absent", page |-> <<>>],
      [body |-> "object", storage |-> "object", value |-> "null", page |-> <<>>] }
    \cup { [body |-> "object", storage |-> "object", value |-> "string", page |-> p] :
           p \in Pages }

ErrTexts == UNION { [1..n -> {"e"}] : n \in 0..MaxErrText }

\* What requests.get gives: it raises, or answers with a status code, a text and
\* (for the body of a 200) a JSON document or undecodable text.
WikiResponses ==
    { [status_code |-> 0, text |-> <<>>, json |-> None] }
    \cup { [status_code |-> c, text |-> t, json |-> None] :
           c \in {404, 503}, t \in ErrTexts }
    \cup { [status_code |-> HTTP_OK, text |-> <<>>, json |-> None] }
    \cup { [status_code |-> HTTP_OK, text |-> <<>>, json |-> Some(d)] : d \in WikiData }

ConnectionFailed(resp) == resp.status_code = 0

\* The request bodies: undecodable, a JSON value that is no object, or an object
\* in which file_key is present or missing.
RequestBodies ==
    { [kind |-> "invalid", page_id |-> None, file_key |-> None],
      [kind |-> "array", page_id |-> None, file_key |-> None] }
    \cup { [kind |-> "object", page_id |-> Some("3539730433"), file_key |-> k] :
           k \in {None, Some("review.js")} }

TextBlock(t) == [kind |-> "text", text |-> t]

ToolBlock == [kind |-> "toolUse", text |-> ""]

Usage == [inputTokens |-> 3, outputTokens |-> 2, totalTokens |-> 5, latencyMs |-> 7]

\* What client.converse returns: the reply's content blocks, and the usage and
\* metrics (present or missing).
BedrockResponses ==
    { [content |-> <<TextBlock("r1")>>, usage |-> None] }
    \cup { [content |-> c, usage |-> Some(Usage)] :
            c \in { <<>>, <<TextBlock("r1")>>, <<TextBlock("r2"), TextBlock("r1")>>,
                    <<ToolBlock, TextBlock("r1")>> } }

\* -------------------------------------------------- get_confluence_page_content

\* data.get("body", {}).get("storage", {}).get("value", "No content found.")
\* (lines 72-74): a missing key gives the default, a null on the way raises.
PageContentStrict(data) ==
    IF data.body = "object" /\ data.storage = "object" /\ data.value # "absent"
    THEN [raises |-> FALSE,
          value |-> IF data.value = "null" THEN None ELSE Some(data.page)]
    ELSE [raises |-> TRUE, value |-> None]

PageContent(data) ==
    IF data.body = "absent" THEN [raises |-> FALSE, value |-> Some(NoContentFound)]
    ELSE IF data.body = "null" THEN [raises |-> TRUE, value |-> None]
    ELSE IF data.storage = "absent" THEN [raises |-> FALSE, value |-> Some(NoContentFound)]
    ELSE IF data.storage = "null" THEN [raises |-> TRUE, value |-> None]
    ELSE IF data.value = "absent" THEN [raises |-> FALSE, value |-> Some(NoContentFound)]
    ELSE IF data.value = "null" THEN [raises |-> FALSE, value |-> None]
    ELSE [raises |-> FALSE, value |-> Some(data.page)]

\* f"Error: {response.status_code} - {response.text}"   (line 77)
ErrorString(resp) ==
    <<"E", "r", "r", "o", "r", ":", " ">> \o Str(resp.status_code)
        \o <<" ", "-", " ">> \o resp.text

\* The value the function returns for a response that arrived (lines 69-77): a
\* pair, a string, or an exception on the way.
PageResultAlwaysPair(resp) ==
    IF resp.status_code = HTTP_OK
    THEN IF resp.json = None THEN [raises |-> TRUE, kind |-> "none", items |-> <<>>]
         ELSE IF PageContent(resp.json[1]).raises
              THEN [raises |-> TRUE, kind |-> "none", items |-> <<>>]
              ELSE [raises |-> FALSE, kind |-> "tuple",
                    items |-> <<Some("title"), PageContent(resp.json[1]).value>>]
    ELSE [raises |-> FALSE, kind |-> "tuple",
          items |-> <<None, Some(<< [name |-> "#text", text |-> ErrorString(resp)] >>)>>]

PageResult(resp) ==
    IF resp.status_code = HTTP_OK
    THEN IF resp.json = None THEN [raises |-> TRUE, kind |-> "none", items |-> <<>>]
         ELSE IF PageContent(resp.json[1]).raises
              THEN [raises |-> TRUE, kind |-> "none", items |-> <<>>]
              ELSE [raises |-> FALSE, kind |-> "tuple",
                    items |-> <<Some("title"), PageContent(resp.json[1]).value>>]
    ELSE [raises |-> FALSE, kind |-> "str", items |-> ErrorString(resp)]

\* title, content = <result>   (line 207): a pair unpacks; a string unpacks only
\* when it has exactly two characters, each then a one-character string.
CanUnpack(result) == Len(result.items) = 2

Unpacked(result) ==
    IF result.kind = "tuple" THEN result.items
    ELSE << Some(<<result.items[1]>>),
            Some(<< [name |-> "#text", text |-> <<result.items[2]>>] >>) >>

\* ------------------------------------------------ invoke_bedrock, generate_output

\* bedrock_metadata (lines 119-129): float() of the four usage numbers.
Metadata(usage) == [input_tokens |-> usage.inputTokens,
                    output_tokens |-> usage.outputTokens,
                    total_tokens |-> usage.totalTokens,
                    latency |-> usage.latencyMs]

\* response["output"]["message"]["content"][0]["text"]   (line 150): an
\* IndexError on an empty content list, a KeyError on a block without text.
HasFirstText(response) ==
    response.content # <<>> /\ response.content[1].kind = "text"

FinalResponseLast(response) == response.content[Len(response.content)].text

FinalResponse(response) == response.content[1].text

\* ------------------------------------------------------- the two templates

Template(endpoint) == IF endpoint = "BackendAgent"
                      THEN "agent_backend_system_prompt_template"
                      ELSE "agent_frontend_system_prompt_template"

\* system_prompt_template.substitute(output_format=..., tech_choice_doc=...):
\* the template with its two placeholders filled.
Substitute(template, doc) == [template |-> template,
                              output_format |-> "output_format",
                              tech_choice_doc |-> doc]

\* ------------------------------------------------------------ the handlers

\* raise HTTPException(status_code=500, detail="Something went wrong")
ErrorResponseNamingStep(step) == [status_code |-> HTTP_INTERNAL_ERROR,
                                  detail |-> step, body |-> ""]

ErrorResponse(step) == [status_code |-> HTTP_INTERNAL_ERROR,
                        detail |-> "Something went wrong", body |-> ""]

\* return response   (lines 236, 256)
OkResponse(text) == [status_code |-> HTTP_OK, detail |-> "", body |-> text]

\* The steps of handle_code_review_request, in the order of its statements.
Order == <<"s3", "wiki", "extract", "prompt", "model">>

VARIABLES
    pc,                \* the position of the request in its handler
    endpoint,          \* which of the two handlers serves the request
    page_id, file_key, \* body.get("page_id"), body.get("file_key")
    code_file,         \* the source file read from the object store
    wiki_response,     \* what requests.get returned
    wiki_result,       \* what get_confluence_page_content returned
    title, content,    \* the unpacked pair
    tags, idx,         \* find_all's list and the loop's position in it
    content_dict, current_header, current_content,
    tech_choice_doc, system_prompt,
    bedrock_response, bedrock_metadata, final_response,
    calls,             \* the steps begun so far, each with how it ended
    raised,            \* the step whose exception reached the handler
    responses          \* the responses sent to the caller

vars == <<pc, endpoint, page_id, file_key, code_file, wiki_response, wiki_result,
          title, content, tags, idx, content_dict, current_header,
          current_content, tech_choice_doc, system_prompt, bedrock_response,
          bedrock_metadata, final_response, calls, raised, responses>>

scanVars == <<tags, idx, content_dict, current_header, current_content>>

modelVars == <<bedrock_response, bedrock_metadata, final_response>>

Begin(step) == Append(calls, [step |-> step, outcome |-> "running"])

End(cs, outcome) == [cs EXCEPT ![Len(cs)].outcome = outcome]

\* An exception leaves the try block for the except clause (lines 238, 258).
Raise(step) == /\ pc' = "except"
               /\ raised' = Some(step)

Init == /\ pc = "request"
        /\ endpoint \in {"BackendAgent", "FrontendAgent"}
        /\ page_id = None /\ file_key = None /\ code_file = None
        /\ wiki_response = None /\ wiki_result = None
        /\ title = None /\ content = None
        /\ tags = <<>> /\ idx = 0
        /\ content_dict = EmptyDict /\ current_header = None
        /\ current_content = <<>>
        /\ tech_choice_doc = None /\ system_prompt = None
        /\ bedrock_response = None /\ bedrock_metadata = None
        /\ final_response = None
        /\ calls = <<>> /\ raised = None /\ responses = <<>>

\* body = await req.json(); body.get(...)   (lines 226-229, 246-249)
ReadBody ==
    /\ pc = "request"
    /\ \E body \in RequestBodies :
         IF body.kind = "object"
         THEN /\ page_id' = body.page_id
              /\ file_key' = body.file_key
              /\ pc' = "s3"
              /\ UNCHANGED raised
         ELSE /\ Raise("body")
              /\ UNCHANGED <<page_id, file_key>>
    /\ UNCHANGED <<endpoint, code_file, wiki_response, wiki_result, title, content,
                   scanVars, tech_choice_doc, system_prompt, modelVars, calls,
                   responses>>

\* retrieve_code_file_from_s3(file_key)   (lines 55-58, 205): get_object raises
\* (no key given, no such key, access denied), the bytes do not decode, or the
\* text is returned.
RetrieveCodeFileSwallow ==
    /\ pc = "s3"
    /\ \E outcome \in {"ClientError", "UnicodeDecodeError", "ok"} :
         IF file_key # None /\ outcome = "ok"
         THEN /\ code_file' = Some("console.log('x')")
              /\ calls' = End(Begin("s3"), "returned")
              /\ pc' = "wiki"
              /\ UNCHANGED raised
         ELSE /\ calls' = End(Begin("s3"), "raised")
              /\ pc' = "wiki"
              /\ UNCHANGED <<code_file, raised>>
    /\ UNCHANGED <<endpoint, page_id, file_key, wiki_response, wiki_result, title,
                   content, scanVars, tech_choice_doc, system_prompt, modelVars,
                   responses>>

RetrieveCodeFile ==
    /\ pc = "s3"
    /\ \E outcome \in {"ClientError", "UnicodeDecodeError", "ok"} :
         IF file_key # None /\ outcome = "ok"
         THEN /\ code_file' = Some("console.log('x')")
              /\ calls' = End(Begin("s3"), "returned")
              /\ pc' = "wiki"
              /\ UNCHANGED raised
         ELSE /\ calls' = End(Begin("s3"), "raised")
              /\ Raise("s3")
              /\ UNCHANGED code_file
    /\ UNCHANGED <<endpoint, page_id, file_key, wiki_response, wiki_result, title,
                   content, scanVars, tech_choice_doc, system_prompt, modelVars,
                   responses>>

\* get_confluence_page_content(...)   (lines 61-77): requests.get raises, or the
\* answer is turned into the function's result.
GetConfluencePageContent ==
    /\ pc = "wiki"
    /\ \E resp \in WikiResponses :
         IF ConnectionFailed(resp) \/ PageResult(resp).raises
         THEN /\ calls' = End(Begin("wiki"), "raised")
              /\ Raise("wiki")
              /\ wiki_response' = IF ConnectionFailed(resp) THEN None ELSE Some(resp)
              /\ UNCHANGED wiki_result
         ELSE /\ calls' = End(Begin("wiki"), "returned")
              /\ wiki_response' = Some(resp)
              /\ wiki_result' = Some(PageResult(resp))
              /\ pc' = "unpack"
              /\ UNCHANGED raised
    /\ UNCHANGED <<endpoint, page_id, file_key, code_file, title, content, scanVars,
                   tech_choice_doc, system_prompt, modelVars, responses>>

\* title, content = get_confluence_page_content(...)   (line 207)
UnpackPage ==
    /\ pc = "unpack"
    /\ IF CanUnpack(wiki_result[1])
       THEN /\ title' = Unpacked(wiki_result[1])[1]
            /\ content' = Unpacked(wiki_result[1])[2]
            /\ pc' = "extract"
            /\ UNCHANGED raised
       ELSE /\ Raise("unpack")
            /\ UNCHANGED <<title, content>>
    /\ UNCHANGED <<endpoint, page_id, file_key, code_file, wiki_response,
                   wiki_result, scanVars, tech_choice_doc, system_prompt, modelVars,
                   calls, responses>>

ScanState == [content_dict |-> content_dict,
              current_header |-> current_header,
              current_content |-> current_content]

\* extract_headers_and_content(content) up to the loop (lines 81-88).  A content
\* that is no string (a null value in the JSON) either makes BeautifulSoup raise
\* or parses to nothing, depending on the library.
ExtractBegin ==
    /\ pc = "extract"
    /\ \/ /\ content = None
          /\ calls' = End(Begin("extract"), "raised")
          /\ Raise("extract")
          /\ UNCHANGED scanVars
       \/ /\ tags' = IF content = None THEN <<>> ELSE find_all(content[1])
          /\ idx' = 1
          /\ content_dict' = ScanStart.content_dict
          /\ current_header' = ScanStart.current_header
          /\ current_content' = ScanStart.current_content
          /\ calls' = Begin("extract")
          /\ pc' = "scan"
          /\ UNCHANGED raised
    /\ UNCHANGED <<endpoint, page_id, file_key, code_file, wiki_response,
                   wiki_result, title, content, tech_choice_doc, system_prompt,
                   modelVars, responses>>

\* One iteration of the loop over the tags (lines 88-97).
ScanTag ==
    /\ pc = "scan"
    /\ idx <= Len(tags)
    /\ content_dict' = TagStep(ScanState, tags[idx]).content_dict
    /\ current_header' = TagStep(ScanState, tags[idx]).current_header
    /\ current_content' = TagStep(ScanState, tags[idx]).current_content
    /\ idx' = idx + 1
    /\ UNCHANGED <<pc, endpoint, page_id, file_key, code_file, wiki_response,
                   wiki_result, title, content, tags, tech_choice_doc,
                   system_prompt, modelVars, calls, raised, responses>>

\* The commit after the loop and the return (lines 99-102), assigned to
\* tech_choice_doc (line 210).
ExtractReturn ==
    /\ pc = "scan"
    /\ idx > Len(tags)
    /\ content_dict' = Commit(ScanState)
    /\ tech_choice_doc' = Some(content_dict')
    /\ calls' = End(calls, "returned")
    /\ pc' = "prompt"
    /\ UNCHANGED <<endpoint, page_id, file_key, code_file, wiki_response,
                   wiki_result, title, content, tags, idx, current_header,
                   current_content, system_prompt, modelVars, raised, responses>>

\* The system prompt, the user message and the prompt payload (lines 212-216).
FormatPrompt ==
    /\ pc = "prompt"
    /\ system_prompt' = Some(Substitute(Template(endpoint), tech_choice_doc[1]))
    /\ calls' = End(Begin("prompt"), "returned")
    /\ pc' = "model"
    /\ UNCHANGED <<endpoint, page_id, file_key, code_file, wiki_response,
                   wiki_result, title, content, scanVars, tech_choice_doc,
                   modelVars, raised, responses>>

\* invoke_bedrock (lines 105-130), called by generate_output (lines 147-149):
\* client.converse raises or answers; reading the usage raises when it is missing.
InvokeBedrock ==
    /\ pc = "model"
    /\ \/ /\ calls' = End(Begin("model"), "raised")
          /\ Raise("converse")
          /\ UNCHANGED <<bedrock_response, bedrock_metadata>>
       \/ \E response \in BedrockResponses :
            IF response.usage = None
            THEN /\ calls' = End(Begin("model"), "raised")
                 /\ Raise("usage")
                 /\ UNCHANGED <<bedrock_response, bedrock_metadata>>
            ELSE /\ calls' = Begin("model")
                 /\ bedrock_response' = Some(response)
                 /\ bedrock_metadata' = Some(Metadata(response.usage[1]))
                 /\ pc' = "reply"
                 /\ UNCHANGED raised
    /\ UNCHANGED <<endpoint, page_id, file_key, code_file, wiki_response,
                   wiki_result, title, content, scanVars, tech_choice_doc,
                   system_prompt, final_response, responses>>

\* final_response = response["output"]["message"]["content"][0]["text"]
\* (lines 150-152), returned by handle_code_review_request (line 218).
ReadReply ==
    /\ pc = "reply"
    /\ IF HasFirstText(bedrock_response[1])
       THEN /\ final_response' = Some(FinalResponse(bedrock_response[1]))
            /\ calls' = End(calls, "returned")
            /\ pc' = "return"
            /\ UNCHANGED raised
       ELSE /\ calls' = End(calls, "raised")
            /\ Raise("reply")
            /\ UNCHANGED final_response
    /\ UNCHANGED <<endpoint, page_id, file_key, code_file, wiki_response,
                   wiki_result, title, content, scanVars, tech_choice_doc,
                   system_prompt, bedrock_response, bedrock_metadata, responses>>

\* return response   (lines 236, 256)
ReturnResponse ==
    /\ pc = "return"
    /\ responses' = Append(responses, OkResponse(final_response[1]))
    /\ pc' = "done"
    /\ UNCHANGED <<endpoint, page_id, file_key, code_file, wiki_response,
                   wiki_result, title, content, scanVars, tech_choice_doc,
                   system_prompt, modelVars, calls, raised>>

\* except Exception as e: log, raise HTTPException   (lines 238-240, 258-260)
HandlerExcept ==
    /\ pc = "except"
    /\ responses' = Append(responses, ErrorResponse(raised[1]))
    /\ pc' = "done"
    /\ UNCHANGED <<endpoint, page_id, file_key, code_file, wiki_response,
                   wiki_result, title, content, scanVars, tech_choice_doc,
                   system_prompt, modelVars, calls, raised>>

Next == \/ ReadBody
        \/ RetrieveCodeFile
        \/ GetConfluencePageContent
        \/ UnpackPage
        \/ ExtractBegin
        \/ ScanTag
        \/ ExtractReturn
        \/ FormatPrompt
        \/ InvokeBedrock
        \/ ReadReply
        \/ ReturnResponse
        \/ HandlerExcept

Spec == Init /\ [][Next]_vars

\* Every call the handler makes returns or raises, so a request that can take a
\* step takes one.
FairSpec == Spec /\ WF_vars(Next)

\* ------------------------------------------------- what the claims speak of

IsHeader(e) == e.name \in HEADER_TAGS

\* The positions of the headers among the selected elements.
HeaderIdx(doc) == { i \in 1..Len(doc) : IsHeader(doc[i]) }

\* The trimmed text of the header at position i.
Key(doc, i) == Strip(doc[i].text)

\* The position of the next header after i, or one past the end.
NextHeader(doc, i) ==
    LET later == { j \in HeaderIdx(doc) : j > i }
    IN IF later = {} THEN Len(doc) + 1
       ELSE CHOOSE j \in later : \A k \in later : j <= k

\* The trimmed texts of the paragraphs between header i and the next header.
SectionParagraphs(doc, i) ==
    LET ps == SelectSeq(SubSeq(doc, i + 1, NextHeader(doc, i) - 1),
                        LAMBDA e : e.name = "p")
    IN [k \in 1..Len(ps) |-> Strip(ps[k].text)]

\* Those texts joined with one space, then trimmed.
SectionText(doc, i) == Strip(Join(<<" ">>, SectionParagraphs(doc, i)))

\* The last header whose trimmed text is k.
LastIdx(doc, k) ==
    CHOOSE i \in HeaderIdx(doc) :
        /\ Key(doc, i) = k
        /\ \A j \in HeaderIdx(doc) : Key(doc, j) = k => j <= i

\* extract_headers_and_content has returned; its result is tech_choice_doc[1].
Extracted == tech_choice_doc # None

SectionMap == tech_choice_doc[1]

GenericError == [status_code |-> 500, detail |-> "Something went wrong", body |-> ""]

AllReturned == /\ Len(calls) = Len(Order)
               /\ \A i \in 1..Len(calls) : calls[i].outcome = "returned"

\* ------------------------------------------------------------------ claims

\* C1: for a document of headers H1..Hn, each followed by k >= 0 paragraphs, the
\* Section Map has exactly n keys (fewer only when header texts repeat), its keys
\* are exactly the trimmed header texts, and each value is the trimmed texts of
\* the paragraphs up to the next header, joined with one space and trimmed.
C1_KeysAreTheHeaderTexts ==
    Extracted =>
        LET H == HeaderIdx(tags)
        IN /\ DOMAIN SectionMap = { Key(tags, i) : i \in H }
           /\ Cardinality(DOMAIN SectionMap) <= Cardinality(H)
           /\ (\A i, j \in H : i # j => Key(tags, i) # Key(tags, j))
                  => Cardinality(DOMAIN SectionMap) = Cardinality(H)
           /\ \A k \in DOMAIN SectionMap :
                  \E i \in H : Key(tags, i) = k /\ SectionMap[k] = SectionText(tags, i)

\* C2: a trimmed header text that occurs more than once has exactly one key, and
\* its value is the joined paragraph text of the last occurrence only.
C2_LastWriteWins ==
    Extracted =>
        \A i, j \in HeaderIdx(tags) :
            (i < j /\ Key(tags, i) = Key(tags, j)) =>
                /\ Key(tags, i) \in DOMAIN SectionMap
                /\ SectionMap[Key(tags, i)]
                       = SectionText(tags, LastIdx(tags, Key(tags, i)))

\* C3: nothing is kept of a paragraph that comes before the first header: until a
\* header is scanned the map and the accumulator stay empty, every value of the
\* result is the text of the paragraphs that follow one header, and a document
\* without headers (the empty one included) gives the empty map.
C3_ContentBeforeFirstHeaderDropped ==
    /\ (pc = "scan" /\ \A j \in 1..(idx - 1) : ~IsHeader(tags[j]))
           => (content_dict = EmptyDict /\ current_content = <<>>)
    /\ Extracted =>
           /\ \A k \in DOMAIN SectionMap :
                  \E i \in HeaderIdx(tags) : SectionMap[k] = SectionText(tags, i)
           /\ HeaderIdx(tags) = {} => SectionMap = EmptyDict

\* A page with a paragraph before its first header, and a section with text.
C3_Witness ==
    /\ Extracted
    /\ Len(tags) >= 3
    /\ tags[1].name = "p" /\ Strip(tags[1].text) # <<>>
    /\ IsHeader(tags[2])
    /\ \E k \in DOMAIN SectionMap : SectionMap[k] # <<>>

\* C4 as stated: a header immediately followed by another header has its key
\* mapped to the empty string.
C4_HeaderThenHeaderIsEmpty ==
    Extracted =>
        \A i \in HeaderIdx(tags) :
            (i + 1) \in HeaderIdx(tags) =>
                /\ Key(tags, i) \in DOMAIN SectionMap
                /\ SectionMap[Key(tags, i)] = <<>>

\* C4 as amended: a header immediately followed by another header has its key
\* mapped to the empty string unless a later header has the same trimmed text; a
\* header whose trimmed text is empty has no key.
C4_HeaderThenHeaderIsEmptyUnlessRepeated ==
    Extracted =>
        \A i \in HeaderIdx(tags) :
            ( /\ (i + 1) \in HeaderIdx(tags)
              /\ \A j \in HeaderIdx(tags) : j > i => Key(tags, j) # Key(tags, i) )
            => IF Key(tags, i) # <<>>
               THEN /\ Key(tags, i) \in DOMAIN SectionMap
                    /\ SectionMap[Key(tags, i)] = <<>>
               ELSE Key(tags, i) \notin DOMAIN SectionMap

\* A section with text, then a header directly followed by another header.
C4_Witness ==
    /\ Extracted
    /\ Len(tags) = 4
    /\ IsHeader(tags[1]) /\ tags[2].name = "p" /\ IsHeader(tags[3]) /\ IsHeader(tags[4])
    /\ Key(tags, 3) # <<>>
    /\ Key(tags, 3) # Key(tags, 4)
    /\ {Key(tags, 1), Key(tags, 3)} \subseteq DOMAIN SectionMap
    /\ SectionMap[Key(tags, 1)] # <<>>
    /\ SectionMap[Key(tags, 3)] = <<>>

\* C5: whichever step of a request raises, the request ends with the response
\* 500 "Something went wrong", the same for every step, and never with a 200.
C5_AnyExceptionGivesGeneric500 ==
    raised # None =>
        /\ pc \in {"except", "done"}
        /\ \A i \in 1..Len(responses) : responses[i].status_code # 200
        /\ pc = "done" => responses = <<GenericError>>

\* The frontend endpoint answered a request whose model reply had no text.
C5_Witness ==
    /\ endpoint = "FrontendAgent"
    /\ pc = "done"
    /\ raised = Some("reply")
    /\ responses = <<GenericError>>

\* C6: on a non-success status the fetcher returns the string "Error: <status> -
\* <text>" without raising; the request still ends with the generic 500, the
\* string never becomes guideline content and the model is not invoked.
C6_WikiErrorStringEndsIn500 ==
    (wiki_response # None /\ wiki_response[1].status_code # 200) =>
        /\ calls[Len(calls)] = [step |-> "wiki", outcome |-> "returned"]
        /\ wiki_result # None
        /\ wiki_result[1].kind = "str"
        /\ SubSeq(wiki_result[1].items, 1, 7) = <<"E", "r", "r", "o", "r", ":", " ">>
        /\ content = None /\ tech_choice_doc = None /\ system_prompt = None
        /\ bedrock_response = None
        /\ pc \in {"unpack", "except", "done"}
        /\ pc = "done" => responses = <<GenericError>>

\* The wiki answered 404 and the request has been answered.
C6_Witness ==
    /\ pc = "done"
    /\ wiki_response # None
    /\ wiki_response[1].status_code = 404
    /\ raised = Some("unpack")
    /\ responses = <<GenericError>>

\* C7: the steps begin in the order object store, wiki, extraction, prompt,
\* model, each at most once, and a step begins only when every earlier step has
\* returned; once anything has raised nothing more is begun.
C7_FixedOrderNoRetry ==
    /\ Len(calls) <= Len(Order)
    /\ \A i \in 1..Len(calls) : calls[i].step = Order[i]
    /\ \A i \in 1..(Len(calls) - 1) : calls[i].outcome = "returned"
    /\ raised # None => pc \in {"except", "done"}
    /\ (pc \in {"except", "done"} /\ raised # None /\ calls # <<>>)
           => calls[Len(calls)].outcome \in
                  IF raised = Some("unpack") THEN {"returned"} ELSE {"raised"}

\* A request in which all five steps ran and returned.
C7_Witness ==
    /\ pc = "done"
    /\ AllReturned
    /\ responses[1].status_code = 200

\* A key of the path body.storage.value is absent from the JSON document.
PathAbsent(data) == \/ data.body = "absent"
                    \/ data.body = "object" /\ data.storage = "absent"
                    \/ data.body = "object" /\ data.storage = "object"
                           /\ data.value = "absent"

\* C8: when the wiki answers 200 and a key of the path body.storage.value is
\* absent, the fetcher returns the fallback literal, the extractor returns the
\* empty map without raising, and the request goes on to the prompt and the
\* model; it ends in 500 only if the model step raises.
C8_MissingContentIsNotFatal ==
    ( /\ wiki_response # None
      /\ wiki_response[1].status_code = 200
      /\ wiki_response[1].json # None
      /\ PathAbsent(wiki_response[1].json[1]) )
    => /\ wiki_result # None
       /\ wiki_result[1].kind = "tuple"
       /\ wiki_result[1].items[2] = Some(NoContentFound)
       /\ raised \in {None, Some("converse"), Some("usage"), Some("reply")}
       /\ pc \in {"prompt", "model", "reply", "return", "except", "done"}
              => (Extracted /\ SectionMap = EmptyDict)
       /\ pc \in {"model", "reply", "return", "except", "done"}
              => system_prompt = Some(Substitute(Template(endpoint), EmptyDict))
       /\ pc = "done" => (Len(calls) = 5 /\ calls[5].step = "model")

\* The page had no body key and the model answered.
C8_Witness ==
    /\ pc = "done"
    /\ wiki_response # None
    /\ wiki_response[1].json # None
    /\ wiki_response[1].json[1].body = "absent"
    /\ SectionMap = EmptyDict
    /\ responses[1].status_code = 200

C9_OneResponse ==
    /\ Len(responses) <= 1
    /\ pc # "done" => responses = <<>>
    /\ pc = "done" =>
           /\ Len(responses) = 1
           /\ responses[1].status_code = 200 <=> AllReturned
           /\ responses[1].status_code = 200 =>
                  /\ responses[1].body = bedrock_response[1].content[1].text
                  /\ responses[1].detail = ""
                  /\ bedrock_metadata =
                         Some([input_tokens |-> 3, output_tokens |-> 2,
                               total_tokens |-> 5, latency |-> 7])
           /\ responses[1].status_code # 200 => responses[1] = GenericError

\* How many steps a request at this position can still take at most.
Rank == CASE pc = "request" -> 11
          [] pc = "s3" -> 10
          [] pc = "wiki" -> 9
          [] pc = "unpack" -> 8
          [] pc = "extract" -> 7
          [] pc = "scan" -> 6
          [] pc = "prompt" -> 5
          [] pc = "model" -> 4
          [] pc = "reply" -> 3
          [] pc = "return" -> 1
          [] pc = "except" -> 1
          [] pc = "done" -> 0

\* C9: every request ends with exactly one response: a request that has not
\* been answered can always take a step and every step brings it nearer to its
\* end; the response is 200 with the first text block of the reply as its body
\* when all five steps returned, the generic 500 otherwise; nothing is sent
\* before the end.
C9_EveryRequestEndsWithOneResponse ==
    /\ []C9_OneResponse
    /\ [](pc = "done" \/ ENABLED Next)
    /\ [][IF pc = "scan" /\ pc' = "scan"
          THEN Len(tags') - idx' < Len(tags) - idx
          ELSE Rank' < Rank]_vars

\* The same end, stated as a liveness property of FairSpec.
RequestTerminates == <>(pc = "done")

\* The reply had two text blocks and the request was answered with the first.
C9_Witness ==
    /\ pc = "done"
    /\ bedrock_response # None
    /\ Len(bedrock_response[1].content) = 2
    /\ responses = <<[status_code |-> 200, detail |-> "", body |-> "r2"]>>

\* C10: the map never has the empty string as a key.  A header whose trimmed
\* text is empty leaves no current header: the section before it has been
\* committed, it creates no key, and while no current header is set no paragraph
\* is accumulated.
C10_NoEmptyKey ==
    /\ <<>> \notin DOMAIN content_dict
    /\ ~Truthy(current_header) => current_content = <<>>
    /\ (pc = "scan" /\ idx > 1 /\ IsHeader(tags[idx - 1]) /\ Key(tags, idx - 1) = <<>>)
           => /\ ~Truthy(current_header)
              /\ \A i \in HeaderIdx(tags) :
                     (i < idx - 1 /\ NextHeader(tags, i) = idx - 1 /\ Key(tags, i) # <<>>)
                         => /\ Key(tags, i) \in DOMAIN content_dict
                            /\ content_dict[Key(tags, i)] = SectionText(tags, i)
    /\ Extracted =>
           /\ DOMAIN SectionMap = { Key(tags, i) : i \in HeaderIdx(tags) } \ {<<>>}
           /\ \A k \in DOMAIN SectionMap :
                  SectionMap[k] = SectionText(tags, LastIdx(tags, k))

\* A section with text, then a header with empty text and a paragraph after it.
C10_Witness ==
    /\ Extracted
    /\ Len(tags) = 4
    /\ IsHeader(tags[1]) /\ Key(tags, 1) # <<>>
    /\ tags[2].name = "p" /\ Strip(tags[2].text) # <<>>
    /\ IsHeader(tags[3]) /\ Key(tags, 3) = <<>>
    /\ tags[4].name = "p" /\ Strip(tags[4].text) # <<>>
    /\ DOMAIN SectionMap = {Key(tags, 1)}
    /\ SectionMap[Key(tags, 1)] = Strip(tags[2].text)

====
